---- MODULE Spec2Model ----
(***************************************************************************)
(* Per-target ridge autoregression: lag-feature construction and training  *)
(* (src/src/models/ridge_autoreg.py, src/src/train_ridge_autoreg.py), the  *)
(* per-date inference loops (src/src/infer_ridge_autoreg.py,               *)
(* src/src/baseline_dayloop.py) and the IC-Sharpe metric                   *)
(* (src/src/metric.py).                                                    *)
(*                                                                         *)
(* A float is a record [k, v, e]: k = "num" with the value v + e * 1e-9    *)
(* (v, e integers), or k = "nan" (missing), or k = "inf" (non-finite, not  *)
(* missing).                                                               *)
(***************************************************************************)
EXTENDS Integers, Sequences, FiniteSets, TLC

VARIABLES
    prog,          \* which program runs: "train", "ridge", "baseline", "metric"
    pc,            \* position of the running program
    missing,       \* the required input that is absent ("none": all are there)
    model_file,    \* the pickled registry training writes and inference reads
    \* ---- training (train_per_target_ridge) ----
    labels_wide,   \* [index |-> Seq(date_id), cols |-> [target -> Seq(float)]]
    lags,          \* the lag list given to training
    ti,            \* position of the `for target in labels_wide.columns` loop
    frame,         \* df of _build_lag_feature_frame before dropna (current target)
    X,             \* retained feature rows of the current target
    y,             \* retained label rows of the current target
    models,        \* the registry: target -> RidgeAutoRegModel
    \* ---- inference (infer_ridge_autoreg.main, baseline_dayloop.main) ----
    lag_tables,    \* lag -> snapshot table (or NoFile)
    test_dates,    \* the date_id column of test.csv
    date_ids,      \* the distinct dates, as the loop visits them
    di,            \* position of the `for d in date_ids` loop
    by_lag,        \* _load_lag_series_for_date's result for the current date
    features,      \* target -> the feature vector predict_row built (current date)
    per_day_values,\* baseline: per-day target -> value map
    rows,          \* the per-date rows collected so far
    submission,    \* the written table (NoSubmission until written)
    \* ---- metric (daily_spearman_sharpe) ----
    true_df,
    pred_df,
    daily_values,
    score

vars == <<prog, pc, missing, model_file, labels_wide, lags, ti, frame, X, y, models,
          lag_tables, test_dates, date_ids, di, by_lag, features,
          per_day_values, rows, submission,
          true_df, pred_df, daily_values, score>>

trainVars == <<labels_wide, lags, ti, frame, X, y>>
inferVars == <<lag_tables, test_dates, date_ids, di, by_lag, features,
               per_day_values, rows, submission>>
metricVars == <<true_df, pred_df, daily_values, score>>
ioVars == <<missing, model_file>>

(***************************************************************************)
(* Floats                                                                  *)
(***************************************************************************)
NaN == [k |-> "nan", v |-> 0, e |-> 0]
Inf == [k |-> "inf", v |-> 0, e |-> 0]
Num(n) == [k |-> "num", v |-> n, e |-> 0]

\* pd.notna / dropna: only NaN is "missing"
notna(f) == f.k # "nan"
\* np.isfinite
isfinite(f) == f.k = "num"

Range(s) == {s[i] : i \in 1..Len(s)}

RECURSIVE SeqSum(_)
SeqSum(s) == IF s = <<>> THEN 0 ELSE s[1] + SeqSum(Tail(s))

(***************************************************************************)
(* Training: _build_lag_feature_frame and train_per_target_ridge           *)
(***************************************************************************)
MinRows == 20

\* pandas Series.shift(l) on a series without a frequency: the index stays,
\* the values move down l positions, the first l positions become NaN.
shift(vals, l) ==
    [i \in 1..Len(vals) |-> IF i - l >= 1 /\ i - l <= Len(vals) THEN vals[i - l] ELSE NaN]

\* df = pd.concat([X, y.rename("y")], axis=1): one row per index entry,
\* feats[j] is column lag_{lags[j]}.
concat_frame(index, vals, ls) ==
    [i \in 1..Len(index) |->
        [date_id |-> index[i],
         feats   |-> [j \in 1..Len(ls) |-> shift(vals, ls[j])[i]],
         y       |-> vals[i]]]

\* mutant: dropna(subset=feature columns), the label is not looked at
row_complete_features_only(r) == \A j \in 1..Len(r.feats) : notna(r.feats[j])

row_complete(r) == notna(r.y) /\ \A j \in 1..Len(r.feats) : notna(r.feats[j])

\* DataFrame.dropna(): keeps, in order, the rows without any missing cell
dropna(df) == SelectSeq(df, row_complete)

build_lag_feature_frame_X(df) ==
    [i \in 1..Len(df) |-> [date_id |-> df[i].date_id, feats |-> df[i].feats]]
build_lag_feature_frame_y(df) ==
    [i \in 1..Len(df) |-> [date_id |-> df[i].date_id, y |-> df[i].y]]

\* mutant: `if len(X) <= 20`
TooFewRows_off_by_one(Xrows) == Len(Xrows) <= MinRows

\* `if len(X) < 20: continue`
TooFewRows(Xrows) == Len(Xrows) < MinRows

\* `mdl.fit(X.values, y.values)`: the fitted estimator. The ridge solution is
\* not computed here; the record keeps the number of samples it was fitted on,
\* and integers stand for the intercept and the one coefficient per feature
\* column.
RidgeFit(Xrows, yrows) ==
    [n_samples |-> Len(Xrows),
     intercept |-> Len(Xrows),
     coef      |-> [j \in 1..Len(Xrows[1].feats) |-> j + 1]]

\* the dataclass RidgeAutoRegModel(target_name, lags, model)
RidgeAutoRegModel(target, ls, mdl) ==
    [target_name |-> target, lags |-> ls, model |-> mdl]

Columns == <<"t0", "t1">>

\* `models[target] = ...` on a dict
DictSet(d, key, val) ==
    [x \in (DOMAIN d) \cup {key} |-> IF x = key THEN val ELSE d[x]]

EmptyDict == [x \in {} |-> 0]
NoFrame == <<>>

(***************************************************************************)
(* Training inputs: a label table sorted by date_id (train main sorts it), *)
(* two target columns, a lag list.                                         *)
(***************************************************************************)
MinLen == 21
MaxLen == 23
MaxGapPos == 3
MaxHole == 4
MaxTrail == 1

LagChoices == {<<1>>, <<2>>, <<1, 2>>, <<2, 1>>, <<1, 2, 3>>}

\* ascending date_ids 1..n, with one date skipped after position `gap`
\* (gap = 0: consecutive date_ids)
DateIndex(n, gap) == [i \in 1..n |-> IF gap > 0 /\ i > gap THEN i + 1 ELSE i]

LabelValue(c, d) == IF c = "t0" THEN d ELSE d + 100

\* a column: the value is missing at position `hole` (0: nowhere) and at the
\* last `trail` positions (dates not yet realized)
LabelColumn(c, index, hole, trail) ==
    [i \in 1..Len(index) |->
        IF i = hole \/ i > Len(index) - trail THEN NaN
        ELSE Num(LabelValue(c, index[i]))]

LabelTables ==
    { [index |-> DateIndex(n, gap),
       cols  |-> [c \in Range(Columns) |->
                    LabelColumn(c, DateIndex(n, gap), hole[c], trail[c])]] :
        n \in MinLen..MaxLen, gap \in 0..MaxGapPos,
        hole \in [Range(Columns) -> 0..MaxHole],
        trail \in [Range(Columns) -> 0..MaxTrail] }

NoTable == [index |-> <<>>, cols |-> EmptyDict]

\* the file at args.out / args.models: absent, being written, or a complete
\* pickle of a registry
NoModelFile == [state |-> "absent", registry |-> EmptyDict]
PartialModelFile == [state |-> "partial", registry |-> EmptyDict]
ModelFile(reg) == [state |-> "complete", registry |-> reg]
NoScore == [k |-> "none", vals |-> <<>>]
NoSubmission == [written |-> FALSE, columns |-> {}, rows |-> <<>>]

InferIdle ==
    /\ lag_tables = EmptyDict
    /\ test_dates = <<>>
    /\ date_ids = <<>>
    /\ di = 0
    /\ by_lag = EmptyDict
    /\ features = EmptyDict
    /\ per_day_values = EmptyDict
    /\ rows = <<>>
    /\ submission = NoSubmission

MetricIdle ==
    /\ true_df = NoTable
    /\ pred_df = NoTable
    /\ daily_values = <<>>
    /\ score = NoScore

TrainIdle ==
    /\ labels_wide = NoTable
    /\ lags = <<>>
    /\ ti = 0
    /\ frame = NoFrame
    /\ X = NoFrame
    /\ y = NoFrame

InitTrain ==
    /\ prog = "train"
    /\ pc = "start"
    /\ missing \in {"none", "train_labels", "date_id"}
    /\ model_file = NoModelFile
    /\ labels_wide \in (IF missing = "none" THEN LabelTables ELSE {NoTable})
    /\ lags \in LagChoices
    /\ ti = 1
    /\ frame = NoFrame
    /\ X = NoFrame
    /\ y = NoFrame
    /\ models = EmptyDict
    /\ InferIdle
    /\ MetricIdle

\* train main up to the call of train_per_target_ridge: the label table is
\* read, indexed by date_id and sorted
TrainStart ==
    /\ prog = "train" /\ pc = "start"
    /\ missing = "none"
    /\ pc' = "loop"
    /\ UNCHANGED <<prog, labels_wide, lags, ti, frame, X, y, models, inferVars,
                   metricVars, ioVars>>

\* `raise FileNotFoundError(f"Missing {train_labels_path}")`,
\* `raise ValueError("train_labels.csv missing date_id column")`
TrainMissingInput ==
    /\ prog = "train" /\ pc = "start"
    /\ missing \in {"train_labels", "date_id"}
    /\ pc' = "error"
    /\ UNCHANGED <<prog, trainVars, models, inferVars, metricVars, ioVars>>

\* `ser = labels_wide[target].astype(float); X, y = _build_lag_feature_frame(ser, lags)`
BuildFrame ==
    /\ prog = "train" /\ pc = "loop"
    /\ ti <= Len(Columns)
    /\ LET ser == labels_wide.cols[Columns[ti]]
           df  == concat_frame(labels_wide.index, ser, lags)
       IN /\ frame' = df
          /\ X' = build_lag_feature_frame_X(dropna(df))
          /\ y' = build_lag_feature_frame_y(dropna(df))
    /\ pc' = "built"
    /\ UNCHANGED <<prog, labels_wide, lags, ti, models, inferVars, metricVars, ioVars>>

\* `if len(X) < 20: continue`
SkipTarget ==
    /\ prog = "train" /\ pc = "built"
    /\ TooFewRows(X)
    /\ ti' = ti + 1
    /\ pc' = "loop"
    /\ UNCHANGED <<prog, labels_wide, lags, frame, X, y, models, inferVars, metricVars, ioVars>>

\* `mdl.fit(X.values, y.values); models[target] = RidgeAutoRegModel(target, lags, mdl)`
FitTarget ==
    /\ prog = "train" /\ pc = "built"
    /\ ~TooFewRows(X)
    /\ models' = DictSet(models, Columns[ti], RidgeAutoRegModel(Columns[ti], lags, RidgeFit(X, y)))
    /\ ti' = ti + 1
    /\ pc' = "loop"
    /\ UNCHANGED <<prog, labels_wide, lags, frame, X, y, inferVars, metricVars, ioVars>>

\* `return models`
ReturnModels ==
    /\ prog = "train" /\ pc = "loop"
    /\ ti > Len(Columns)
    /\ pc' = "done"
    /\ UNCHANGED <<prog, labels_wide, lags, ti, frame, X, y, models, inferVars, metricVars, ioVars>>

\* `pd.to_pickle(models, args.out)`: the file is opened for writing ...
OpenModelFile ==
    /\ prog = "train" /\ pc = "done"
    /\ model_file' = PartialModelFile
    /\ pc' = "writing"
    /\ UNCHANGED <<prog, missing, trainVars, models, inferVars, metricVars>>

\* ... and holds the whole registry once the dump has ended
CloseModelFile ==
    /\ prog = "train" /\ pc = "writing"
    /\ model_file' = ModelFile(models)
    /\ pc' = "saved"
    /\ UNCHANGED <<prog, missing, trainVars, models, inferVars, metricVars>>

NextTrain ==
    \/ TrainStart \/ TrainMissingInput
    \/ BuildFrame \/ SkipTarget \/ FitTarget \/ ReturnModels
    \/ OpenModelFile \/ CloseModelFile

SpecTrain == InitTrain /\ [][NextTrain]_vars

(***************************************************************************)
(* Claims about training                                                   *)
(***************************************************************************)
\* the series of the target the loop is at / a given target
SeriesOf(c) == labels_wide.cols[c]

\* positions of a series whose label and whose value l positions earlier, for
\* every lag l, are present
CompletePositions(c) ==
    {i \in 1..Len(labels_wide.index) :
        /\ SeriesOf(c)[i] # NaN
        /\ \A j \in 1..Len(lags) :
              i - lags[j] >= 1 /\ SeriesOf(c)[i - lags[j]] # NaN}

Processed == {Columns[i] : i \in 1..(ti - 1)}

\* C2: a target is in the registry if and only if it has at least 20 rows in
\* which the label and every lag feature are present; the loop goes on to the
\* end whatever the targets' row counts are (a skipped target raises nothing).
C2_RegistryIffEnoughRows ==
    /\ prog = "train" =>
          /\ DOMAIN models \subseteq Processed
          /\ \A c \in Processed :
                (c \in DOMAIN models) <=> (Cardinality(CompletePositions(c)) >= 20)
    /\ (prog = "train" /\ pc = "done") => Processed = Range(Columns)

\* the first target is one row short and skipped, the second has exactly 20
\* complete rows and is trained
C2_Witness ==
    /\ prog = "train" /\ pc = "done"
    /\ Cardinality(CompletePositions("t0")) = 19
    /\ Cardinality(CompletePositions("t1")) = 20
    /\ DOMAIN models = {"t1"}

\* the value of the current series dated d (NaN when no row is dated d)
ValueDated(c, d) ==
    IF \E i \in 1..Len(labels_wide.index) : labels_wide.index[i] = d
    THEN SeriesOf(c)[CHOOSE i \in 1..Len(labels_wide.index) : labels_wide.index[i] = d]
    ELSE NaN

\* C3: for every lag l and every row dated d, the lag-l feature is the series
\* value dated d - l (absent when no value is dated d - l), for any DateId
\* sequence, also one with irregular gaps.
C3_FeatureIsValueDatedDMinusL ==
    (prog = "train" /\ pc = "built") =>
        \A i \in 1..Len(frame) : \A j \in 1..Len(lags) :
            frame[i].feats[j] = ValueDated(Columns[ti], frame[i].date_id - lags[j])

\* what the code does: the lag-l feature of the row at position i is the value
\* l rows earlier
C3_FeatureIsValueLRowsEarlier ==
    (prog = "train" /\ pc = "built") =>
        \A i \in 1..Len(frame) : \A j \in 1..Len(lags) :
            frame[i].feats[j] =
                IF i - lags[j] >= 1 THEN SeriesOf(Columns[ti])[i - lags[j]] ELSE NaN

RowPresent(r) == r.y.k # "nan" /\ \A j \in 1..Len(r.feats) : r.feats[j].k # "nan"

\* C4: the returned rows are exactly the rows whose label and all lag features
\* are present, in ascending DateId order, feature row i and label i
\* describing the same DateId.
C4_RetainedRowsExact ==
    (prog = "train" /\ pc = "built") =>
        /\ Len(X) = Len(y)
        /\ \A i \in 1..Len(X) : X[i].date_id = y[i].date_id
        /\ \A i \in 1..Len(X) : \A j \in 1..Len(X) :
              i < j => X[i].date_id < X[j].date_id
        /\ {X[i].date_id : i \in 1..Len(X)} =
              {frame[i].date_id : i \in {k \in 1..Len(frame) : RowPresent(frame[k])}}
        /\ \A i \in 1..Len(X) : \E k \in 1..Len(frame) :
              /\ frame[k].date_id = X[i].date_id
              /\ frame[k].feats = X[i].feats
              /\ frame[k].y = y[i].y

\* a row with a missing label and a row with a missing feature lie between
\* retained rows
C4_Witness ==
    /\ prog = "train" /\ pc = "built"
    /\ \E a, b, c, d \in 1..Len(frame) :
          /\ a < b /\ b < c /\ c < d
          /\ RowPresent(frame[a]) /\ RowPresent(frame[d])
          /\ frame[b].y = NaN
          /\ frame[c].y # NaN /\ ~RowPresent(frame[c])
          /\ frame[a].date_id \in {X[i].date_id : i \in 1..Len(X)}
          /\ frame[d].date_id \in {y[i].date_id : i \in 1..Len(y)}
          /\ Len(X) = Cardinality({k \in 1..Len(frame) : RowPresent(frame[k])})

(***************************************************************************)
(* Inference: the lag snapshot tables, _load_lag_series_for_date,          *)
(* predict_wide / predict_row, and the two per-date loops                  *)
(***************************************************************************)
\* `for lag in [1, 2, 3, 4]`
LagList == <<1, 2, 3, 4>>

MetaColumns == {"date_id", "label_date_id"}

\* test_labels_lag_k.csv: absent, or a table with a date_id per row, the
\* metadata column label_date_id and target columns
NoFile == [exists |-> FALSE, cols |-> <<>>, rows |-> <<>>]
CsvTable(cs, rs) == [exists |-> TRUE, cols |-> cs, rows |-> rs]

\* `df.filter(pl.col("date_id") == d)`
filter_date(df, d) == SelectSeq(df.rows, LAMBDA r : r.date_id = d)

\* `row.drop([c for c in ["date_id", "label_date_id"] if c in row.columns])`
\* then `.to_pandas().iloc[0]`: the first matching row as a Series over the
\* remaining columns (a null cell is NaN in it)
first_row_series(df, d) ==
    LET r == filter_date(df, d)[1]
    IN [c \in (DOMAIN r.vals) \ MetaColumns |-> r.vals[c]]

\* mutant: `break` instead of `continue` at the first lag without a row
load_lag_series_for_date_break(tables, d) ==
    [lag \in {k \in Range(LagList) :
                 \A j \in Range(LagList) : j <= k =>
                    tables[j].exists /\ Len(filter_date(tables[j], d)) # 0}
        |-> first_row_series(tables[lag], d)]

\* mutant: the lookup of the previous cycle is kept and updated
load_lag_series_for_date_carry_over(tables, d) ==
    LET fresh == {k \in Range(LagList) :
                     tables[k].exists /\ Len(filter_date(tables[k], d)) # 0}
    IN [lag \in fresh \cup DOMAIN by_lag |->
           IF lag \in fresh THEN first_row_series(tables[lag], d) ELSE by_lag[lag]]

load_lag_series_for_date(tables, d) ==
    [lag \in {k \in Range(LagList) :
                 tables[k].exists /\ Len(filter_date(tables[k], d)) # 0}
        |-> first_row_series(tables[lag], d)]

\* dict.get(key, default)
dict_get(d, key, default) == IF key \in DOMAIN d THEN d[key] ELSE default

\* mutant: the lag's Series is used whenever the lag is in the lookup
lag_value_available_any_row(byl, target, l) == l \in DOMAIN byl

\* `ser is not None and target in ser.index and pd.notna(ser[target])`
lag_value_available(byl, target, l) ==
    /\ l \in DOMAIN byl
    /\ target \in DOMAIN byl[l]
    /\ notna(byl[l][target])

\* the dict `vals` predict_wide builds for one target
predict_wide_vals(mdl, target, byl) ==
    [l \in {k \in Range(mdl.lags) : lag_value_available(byl, target, k)}
        |-> dict_get(byl[l], target, NaN)]

\* mutant: the fallback substitutes 1.0
predict_row_features_fallback_one(mdl, vals) ==
    [j \in 1..Len(mdl.lags) |-> dict_get(vals, mdl.lags[j], Num(1))]

\* `features = [lag_values_by_lag.get(l, 0.0) for l in self.lags]`
predict_row_features(mdl, vals) ==
    [j \in 1..Len(mdl.lags) |-> dict_get(vals, mdl.lags[j], Num(0))]

RECURSIVE dot(_, _, _)
dot(coef, feats, j) ==
    IF j > Len(feats) THEN 0 ELSE coef[j] * feats[j].v + dot(coef, feats, j + 1)

\* Ridge.predict on one row: intercept + coef . features (NaN in, NaN out)
ridge_predict(model, feats) ==
    IF \E j \in 1..Len(feats) : ~isfinite(feats[j]) THEN NaN
    ELSE Num(model.intercept + dot(model.coef, feats, 1))

predict_row(mdl, vals) == ridge_predict(mdl.model, predict_row_features(mdl, vals))

\* mutant: only the targets seen in the date's lookup get a prediction
predict_wide_seen_targets(reg, byl) ==
    [target \in {t \in DOMAIN reg : \E l \in DOMAIN byl : t \in DOMAIN byl[l]} |->
        predict_row(reg[target], predict_wide_vals(reg[target], target, byl))]

predict_wide(reg, byl) ==
    [target \in DOMAIN reg |->
        predict_row(reg[target], predict_wide_vals(reg[target], target, byl))]

\* the feature vectors predict_row builds inside predict_wide
predict_wide_features(reg, byl) ==
    [target \in DOMAIN reg |->
        predict_row_features(reg[target], predict_wide_vals(reg[target], target, byl))]

\* `test["date_id"].unique(maintain_order=True).to_list()`
RECURSIVE unique_maintain_order(_)
unique_maintain_order(s) ==
    IF s = <<>> THEN <<>>
    ELSE <<s[1]>> \o unique_maintain_order(SelectSeq(Tail(s), LAMBDA a : a # s[1]))

\* `pd.concat(rows, ignore_index=True)`: the columns are the union of the
\* rows' columns, a cell a row does not have is NaN
pd_concat(rs) ==
    LET columns == UNION {DOMAIN rs[i].vals : i \in 1..Len(rs)}
    IN [written |-> TRUE,
        columns |-> columns,
        rows    |-> [i \in 1..Len(rs) |->
                       [date_id |-> rs[i].date_id,
                        vals    |-> [c \in columns |-> dict_get(rs[i].vals, c, NaN)]]]]

(***************************************************************************)
(* Baseline day loop (baseline_dayloop.py)                                 *)
(***************************************************************************)
\* `keep = [c for c in df.columns if c not in ("date_id", "label_date_id")]`
target_names(df) == SelectSeq(df.cols, LAMBDA c : c \notin MetaColumns)

RECURSIVE lagged_labels_columns(_, _)
lagged_labels_columns(tables, k) ==
    IF k > Len(LagList) THEN <<>>
    ELSE (IF tables[LagList[k]].exists THEN target_names(tables[LagList[k]]) ELSE <<>>)
         \o lagged_labels_columns(tables, k + 1)

\* _read_lagged_labels_columns: the target names of the existing lag files,
\* deduplicated in order of first appearance
read_lagged_labels_columns(tables) ==
    unique_maintain_order(lagged_labels_columns(tables, 1))

\* mutant: `val = float(pdf.iloc[0][c])`
baseline_cell_keep_nan(f) == f

\* `val = float(pdf.iloc[0][c]) if pd.notna(pdf.iloc[0][c]) else 0.0`
baseline_cell(f) == IF notna(f) THEN f ELSE Num(0)

\* the per-day loop over lag_frames (files that exist, in the order 1, 2, 3, 4),
\* after the first k lags: per_day_values and per_day_cols
RECURSIVE per_day(_, _, _)
per_day(tables, d, k) ==
    IF k = 0 THEN [values |-> EmptyDict, cols |-> <<>>]
    ELSE LET prev == per_day(tables, d, k - 1)
             df   == tables[LagList[k]]
         IN IF ~df.exists \/ Len(filter_date(df, d)) = 0 THEN prev
            ELSE LET ser   == first_row_series(df, d)
                     tcols == target_names(df)
                 IN [values |-> [c \in (DOMAIN prev.values) \cup Range(tcols) |->
                                    IF c \in Range(tcols) THEN baseline_cell(ser[c])
                                    ELSE prev.values[c]],
                     cols   |-> prev.cols \o tcols]

\* `rng = np.random.default_rng(0); jitter = rng.normal(0.0, 1e-6, size=n)`:
\* the same draws at every call, none of them zero (in units of 1e-9)
Jitter == <<126, -132, 640, 105>>

add_jitter(f, j) == IF f.k = "num" THEN [k |-> "num", v |-> f.v, e |-> f.e + j] ELSE f

\* _predict_from_lagged_series
predict_from_lagged_series(lagged_values_by_target, columns) ==
    [c \in Range(columns) |->
        add_jitter(dict_get(lagged_values_by_target, c, Num(0)),
                   Jitter[CHOOSE i \in 1..Len(columns) : columns[i] = c])]

\* `cols_for_pred = list(dict.fromkeys(per_day_cols)) or target_columns`
cols_for_pred(per_day_cols, target_columns) ==
    IF per_day_cols # <<>> THEN unique_maintain_order(per_day_cols) ELSE target_columns

(***************************************************************************)
(* Inference inputs                                                        *)
(***************************************************************************)
MaxDates == 2

Dates == {100, 101}

RECURSIVE SeqsUpTo(_, _)
SeqsUpTo(S, n) ==
    IF n = 0 THEN {<<>>}
    ELSE SeqsUpTo(S, n - 1) \cup
         {Append(q, a) : q \in {r \in SeqsUpTo(S, n - 1) : Len(r) = n - 1}, a \in S}

\* test.csv's date_id column: any order, repeats allowed
DateLists == SeqsUpTo(Dates, MaxDates) \ {<<>>}

\* the value lag table `lag` reports for target c on date d
SnapshotValue(lag, d, c) ==
    (IF c = "t" THEN 5 ELSE 7) + 10 * (lag - 1) + 100 * (d - 100)

\* a snapshot row: every target value present, but NaN for the targets in `nulls`
SnapshotRow(lag, d, cs, nulls) ==
    [date_id |-> d,
     vals |-> [c \in Range(cs) |->
                 IF c = "date_id" THEN Num(d)
                 ELSE IF c = "label_date_id" THEN Num(d + lag)
                 ELSE IF c \in nulls THEN NaN
                 ELSE Num(SnapshotValue(lag, d, c))]]

RowChoices(lag, d, cs) ==
    {<<>>, <<SnapshotRow(lag, d, cs, {})>>, <<SnapshotRow(lag, d, cs, {"t"})>>}

ColumnChoices ==
    {<<"date_id", "label_date_id", "t">>, <<"date_id", "label_date_id", "t", "u">>}

\* the lags whose tables vary freely; the others are absent or hold date 101 only
RichLags == {1, 2}

RichTables(lag) ==
    {NoFile} \cup
    UNION {{CsvTable(cs, r100 \o r101) :
               r100 \in RowChoices(lag, 100, cs),
               r101 \in {<<>>, <<SnapshotRow(lag, 101, cs, {})>>}} :
           cs \in ColumnChoices}

SparseTables(lag) ==
    {NoFile,
     CsvTable(<<"date_id", "label_date_id", "t", "u">>,
              <<SnapshotRow(lag, 101, <<"date_id", "label_date_id", "t", "u">>, {})>>)}

TablesFor(lag) == IF lag \in RichLags THEN RichTables(lag) ELSE SparseTables(lag)

LagTableSets ==
    {[lag \in Range(LagList) |->
        IF lag = 1 THEN a ELSE IF lag = 2 THEN b ELSE IF lag = 3 THEN c ELSE d] :
        a \in TablesFor(1), b \in TablesFor(2), c \in TablesFor(3), d \in TablesFor(4)}

\* a registry as training leaves it: one lag list for all models; the ridge
\* coefficients are integers here
Registries ==
    {[target \in T |->
        RidgeAutoRegModel(target, ls,
            [intercept |-> 1, coef |-> [j \in 1..Len(ls) |-> j + 1]])] :
        T \in {{}, {"t"}, {"t", "u"}, {"t", "v"}},
        ls \in {<<1, 2>>, <<2, 1, 3>>}}

\* no lagged_test_labels directory: no lag file either
NoLagDir == [lag \in Range(LagList) |-> NoFile]

InitInfer ==
    /\ prog \in {"ridge", "baseline"}
    /\ pc = "start"
    /\ missing \in {"none", "lag_dir", "test_csv"}
    /\ lag_tables \in (IF missing = "lag_dir" THEN {NoLagDir} ELSE LagTableSets)
    /\ test_dates \in (IF missing = "test_csv" THEN {<<>>} ELSE DateLists)
    /\ model_file \in (IF prog = "ridge"
                       THEN {NoModelFile} \cup {ModelFile(reg) : reg \in Registries}
                       ELSE {NoModelFile})
    /\ models = EmptyDict
    /\ date_ids = <<>>
    /\ di = 0
    /\ by_lag = EmptyDict
    /\ features = EmptyDict
    /\ per_day_values = EmptyDict
    /\ rows = <<>>
    /\ submission = NoSubmission
    /\ TrainIdle
    /\ MetricIdle

\* mutant: the pickle is read whatever its state
ridge_inputs_present_unchecked_pickle == missing = "none"

\* the inputs infer main needs before its loop: the lagged_test_labels
\* directory, a readable pickle and test.csv (a lag file is not among them)
ridge_inputs_present == missing = "none" /\ model_file.state = "complete"

\* infer main, up to the loop: the registry and the date list are read
StartRidge ==
    /\ prog = "ridge" /\ pc = "start"
    /\ ridge_inputs_present
    /\ models' = model_file.registry
    /\ date_ids' = unique_maintain_order(test_dates)
    /\ di' = 1
    /\ rows' = <<>>
    /\ pc' = "loop"
    /\ UNCHANGED <<prog, lag_tables, test_dates, by_lag, features,
                   per_day_values, submission, trainVars, metricVars, ioVars>>

\* `raise FileNotFoundError(f"Missing {lag_dir}")`, or read_pickle /
\* read_csv raising on an absent (or truncated) file
RidgeMissingInput ==
    /\ prog = "ridge" /\ pc = "start"
    /\ ~ridge_inputs_present
    /\ pc' = "error"
    /\ UNCHANGED <<prog, models, inferVars, trainVars, metricVars, ioVars>>

\* one cycle of `for d in date_ids`: assemble, predict, append the row
RidgeDate ==
    /\ prog = "ridge" /\ pc = "loop"
    /\ di <= Len(date_ids)
    /\ LET d   == date_ids[di]
           byl == load_lag_series_for_date(lag_tables, d)
       IN /\ by_lag' = byl
          /\ features' = predict_wide_features(models, byl)
          /\ IF \E target \in DOMAIN models :
                   \E j \in 1..Len(models[target].lags) :
                      ~isfinite(predict_wide_features(models, byl)[target][j])
             THEN \* sklearn's input validation: ValueError for NaN or infinity
                  /\ pc' = "raised"
                  /\ UNCHANGED <<rows, di>>
             ELSE /\ rows' = Append(rows, [date_id |-> d, vals |-> predict_wide(models, byl)])
                  /\ di' = di + 1
                  /\ pc' = pc
    /\ UNCHANGED <<prog, models, lag_tables, test_dates, date_ids,
                   per_day_values, submission, trainVars, metricVars, ioVars>>

\* `submission = pd.concat(rows, ignore_index=True)` ... `to_parquet`
RidgeWrite ==
    /\ prog = "ridge" /\ pc = "loop"
    /\ di > Len(date_ids)
    /\ submission' = pd_concat(rows)
    /\ pc' = "done"
    /\ UNCHANGED <<prog, models, lag_tables, test_dates, date_ids, di, by_lag,
                   features, per_day_values, rows, trainVars, metricVars, ioVars>>

\* baseline main, up to the loop
StartBaseline ==
    /\ prog = "baseline" /\ pc = "start"
    /\ missing = "none"
    /\ read_lagged_labels_columns(lag_tables) # <<>>
    /\ date_ids' = unique_maintain_order(test_dates)
    /\ di' = 1
    /\ rows' = <<>>
    /\ pc' = "loop"
    /\ UNCHANGED <<prog, models, lag_tables, test_dates, by_lag, features,
                   per_day_values, submission, trainVars, metricVars, ioVars>>

\* `raise FileNotFoundError(f"Missing {test_path}")`,
\* `raise FileNotFoundError(f"Missing {lag_dir}")` (neither data_dir nor its
\* parent holds the directory)
BaselineMissingInput ==
    /\ prog = "baseline" /\ pc = "start"
    /\ missing \in {"lag_dir", "test_csv"}
    /\ pc' = "error"
    /\ UNCHANGED <<prog, models, inferVars, trainVars, metricVars, ioVars>>

\* `raise RuntimeError("Could not infer target columns from lagged_test_labels")`
BaselineNoColumns ==
    /\ prog = "baseline" /\ pc = "start"
    /\ missing = "none"
    /\ read_lagged_labels_columns(lag_tables) = <<>>
    /\ pc' = "error"
    /\ UNCHANGED <<prog, models, inferVars, trainVars, metricVars, ioVars>>

\* one cycle of the baseline's `for d in date_ids`
BaselineDate ==
    /\ prog = "baseline" /\ pc = "loop"
    /\ di <= Len(date_ids)
    /\ LET d  == date_ids[di]
           pd == per_day(lag_tables, d, Len(LagList))
           cs == cols_for_pred(pd.cols, read_lagged_labels_columns(lag_tables))
       IN /\ per_day_values' = pd.values
          /\ rows' = Append(rows, [date_id |-> d,
                                   vals |-> predict_from_lagged_series(pd.values, cs)])
    /\ di' = di + 1
    /\ UNCHANGED <<prog, pc, models, lag_tables, test_dates, date_ids, by_lag,
                   features, submission, trainVars, metricVars, ioVars>>

BaselineWrite ==
    /\ prog = "baseline" /\ pc = "loop"
    /\ di > Len(date_ids)
    /\ submission' = pd_concat(rows)
    /\ pc' = "done"
    /\ UNCHANGED <<prog, models, lag_tables, test_dates, date_ids, di, by_lag,
                   features, per_day_values, rows, trainVars, metricVars, ioVars>>

NextInfer ==
    \/ StartRidge \/ RidgeMissingInput \/ RidgeDate \/ RidgeWrite
    \/ StartBaseline \/ BaselineMissingInput \/ BaselineNoColumns
    \/ BaselineDate \/ BaselineWrite

SpecInfer == InitInfer /\ [][NextInfer]_vars

(***************************************************************************)
(* Training followed by inference: the two scripts share the model file.   *)
(* The inference script may be started while training is at any position;  *)
(* it reads the model file once, in its first step, so what the training   *)
(* process does after that read is not followed.                           *)
(***************************************************************************)
PipelineLabelTables ==
    { [index |-> DateIndex(n, 0),
       cols  |-> [c \in Range(Columns) |->
                    LabelColumn(c, DateIndex(n, 0), hole[c], 0)]] :
        n \in MinLen..MaxLen, hole \in [Range(Columns) -> {0, MaxHole}] }

PipelineColumns == <<"date_id", "label_date_id", "t0", "t1">>

PipelineLagTables ==
    {[lag \in Range(LagList) |-> IF lag = 1 THEN a ELSE NoFile] :
        a \in {NoFile,
               CsvTable(PipelineColumns, <<SnapshotRow(1, 100, PipelineColumns, {})>>),
               CsvTable(PipelineColumns, <<SnapshotRow(1, 100, PipelineColumns, {"t0"}),
                                           SnapshotRow(1, 101, PipelineColumns, {})>>)}}

InitPipeline ==
    /\ prog = "train"
    /\ pc = "start"
    /\ missing = "none"
    /\ model_file = NoModelFile
    /\ labels_wide \in PipelineLabelTables
    /\ lags \in {<<1>>, <<1, 2>>}
    /\ ti = 1
    /\ frame = NoFrame
    /\ X = NoFrame
    /\ y = NoFrame
    /\ models = EmptyDict
    /\ lag_tables \in PipelineLagTables
    /\ test_dates \in {<<100>>, <<101, 100>>}
    /\ date_ids = <<>>
    /\ di = 0
    /\ by_lag = EmptyDict
    /\ features = EmptyDict
    /\ per_day_values = EmptyDict
    /\ rows = <<>>
    /\ submission = NoSubmission
    /\ MetricIdle

\* the inference script is started: a new process, its registry not yet read
LaunchInference ==
    /\ prog = "train"
    /\ prog' = "ridge"
    /\ pc' = "start"
    /\ models' = EmptyDict
    /\ UNCHANGED <<trainVars, inferVars, metricVars, ioVars>>

NextPipeline ==
    \/ TrainStart \/ BuildFrame \/ SkipTarget \/ FitTarget \/ ReturnModels
    \/ OpenModelFile \/ CloseModelFile
    \/ LaunchInference
    \/ StartRidge \/ RidgeMissingInput \/ RidgeDate \/ RidgeWrite

SpecPipeline == InitPipeline /\ [][NextPipeline]_vars

(***************************************************************************)
(* Claims about inference                                                  *)
(***************************************************************************)
\* the date the last completed cycle was for
LastDate == date_ids[di - 1]
AfterCycle(p) == prog = p /\ pc \in {"loop", "done"} /\ di > 1

\* C1: for every model of the registry and every lag l of its lag list, in
\* order: when the per-lag lookup has no entry for l, or the entry lacks the
\* target, or the target's value is NaN, the feature slot is exactly 0.0;
\* otherwise it is the looked-up value; the prediction is the model's value on
\* that vector.
C1_FallbackZero ==
    AfterCycle("ridge") =>
        /\ DOMAIN features = DOMAIN models
        /\ \A target \in DOMAIN models :
              /\ Len(features[target]) = Len(models[target].lags)
              /\ \A j \in 1..Len(models[target].lags) :
                    LET l == models[target].lags[j]
                    IN IF \/ l \notin DOMAIN by_lag
                          \/ target \notin DOMAIN by_lag[l]
                          \/ by_lag[l][target] = NaN
                       THEN features[target][j] = Num(0)
                       ELSE features[target][j] = by_lag[l][target]
              /\ rows[Len(rows)].vals[target] =
                    Num(models[target].model.intercept
                        + SeqSum([j \in 1..Len(models[target].lags) |->
                                    models[target].model.coef[j] * features[target][j].v]))

\* lag 1 holds t = 5.0 for date 100, lag 2 has no row for date 100, and the
\* model for t with lags [1, 2] is evaluated on [5.0, 0.0]
C1_Witness ==
    /\ AfterCycle("ridge") /\ LastDate = 100
    /\ "t" \in DOMAIN models /\ models["t"].lags = <<1, 2>>
    /\ 1 \in DOMAIN by_lag /\ by_lag[1]["t"] = Num(5)
    /\ 2 \notin DOMAIN by_lag /\ lag_tables[2].exists
    /\ features["t"] = <<Num(5), Num(0)>>

\* the target names found in the lag snapshot tables
SnapshotTargets ==
    UNION {Range(lag_tables[k].cols) \ MetaColumns : k \in Range(LagList)}

\* C5: the written submission is rectangular over the union of the target
\* names of the lag snapshot tables: every row has a value for every such
\* target, 0.0 where the date has no prediction for it.
C5_FullColumnSet ==
    (prog = "ridge" /\ submission.written) =>
        /\ SnapshotTargets \subseteq submission.columns
        /\ \A i \in 1..Len(submission.rows) : \A c \in SnapshotTargets :
              /\ c \in DOMAIN submission.rows[i].vals
              /\ submission.rows[i].vals[c] # NaN
              /\ c \notin DOMAIN models => submission.rows[i].vals[c] = Num(0)

\* C5, for the baseline day loop's submission
C5_FullColumnSetBaseline ==
    (prog = "baseline" /\ submission.written) =>
        /\ SnapshotTargets \subseteq submission.columns
        /\ \A i \in 1..Len(submission.rows) : \A c \in SnapshotTargets :
              submission.rows[i].vals[c] # NaN

\* C6: the submission has exactly one row per distinct date_id of the date
\* list, in ascending date_id order.
C6_OneRowPerDateAscending ==
    submission.written =>
        /\ {submission.rows[i].date_id : i \in 1..Len(submission.rows)} = Range(test_dates)
        /\ Len(submission.rows) = Cardinality(Range(test_dates))
        /\ \A i \in 1..Len(submission.rows) : \A j \in 1..Len(submission.rows) :
              i < j => submission.rows[i].date_id < submission.rows[j].date_id

\* what the code does: one row per distinct date_id
C6_OneRowPerDate ==
    submission.written =>
        /\ {submission.rows[i].date_id : i \in 1..Len(submission.rows)} = Range(test_dates)
        /\ Len(submission.rows) = Cardinality(Range(test_dates))

\* the snapshot rows of lag k dated d
SnapshotRows(k, d) ==
    {lag_tables[k].rows[i] : i \in {n \in 1..Len(lag_tables[k].rows) :
                                       lag_tables[k].rows[n].date_id = d}}

\* C7: at assembly, a target whose snapshot value for the date is NaN is left
\* out of the lookup for that lag and never entered as a number: in the ridge
\* assembler's lookup, and in the baseline's per-day value map, every number
\* is the value of a snapshot row of that date.
C7_MissingNotCoerced ==
    /\ AfterCycle("ridge") =>
          \A k \in DOMAIN by_lag : \A c \in DOMAIN by_lag[k] :
              by_lag[k][c] # NaN =>
                 \E r \in SnapshotRows(k, LastDate) :
                    c \in DOMAIN r.vals /\ r.vals[c] = by_lag[k][c]
    /\ AfterCycle("baseline") =>
          \A c \in DOMAIN per_day_values :
              \E k \in Range(LagList) : \E r \in SnapshotRows(k, LastDate) :
                 c \in DOMAIN r.vals /\ r.vals[c] # NaN /\ r.vals[c] = per_day_values[c]

\* C8: the lookup has an entry for lag k exactly when lag k's table has a row
\* with the date_id; a date in no lag table gives the empty lookup, and
\* predict_wide still returns one prediction per registry target.
C8_EntryIffRow ==
    AfterCycle("ridge") =>
        /\ DOMAIN by_lag =
              {k \in Range(LagList) :
                  \E i \in 1..Len(lag_tables[k].rows) :
                      lag_tables[k].rows[i].date_id = LastDate}
        /\ Len(rows) = di - 1
        /\ rows[Len(rows)].date_id = LastDate
        /\ DOMAIN rows[Len(rows)].vals = DOMAIN models
        /\ \A target \in DOMAIN models : rows[Len(rows)].vals[target].k = "num"

\* the date is in no lag table although every table exists, lags 2, 3, 4 have a row
\* for another date, and every registry target got its prediction
C8_Witness ==
    /\ AfterCycle("ridge") /\ Len(date_ids) = 2 /\ di = 3
    /\ by_lag = EmptyDict
    /\ \A k \in Range(LagList) : lag_tables[k].exists
    /\ DOMAIN models = {"t", "u"}
    /\ DOMAIN rows[2].vals = {"t", "u"}
    /\ DOMAIN load_lag_series_for_date(lag_tables, date_ids[1]) = {2, 3, 4}

(***************************************************************************)
(* Metric: daily_spearman_sharpe (metric.py)                               *)
(*                                                                         *)
(* A table is [index, columns, vals]: vals[d][c] is the cell of row d and  *)
(* column c. A daily correlation is [k, num, den2]: k = "num" with the     *)
(* value num / sqrt(den2), or k = "nan". The score is [k, vals]: k = "nan",*)
(* or k = "num" with the value mean(vals) / std(vals, ddof=1), or k =      *)
(* "error" when the function raised.                                       *)
(***************************************************************************)
CorrNaN == [k |-> "nan", num |-> 0, den2 |-> 1]
ScoreNaN == [k |-> "nan", vals |-> <<>>]
ScoreError == [k |-> "error", vals |-> <<>>]

\* mutant: the rows of the true table, not intersected
common_index_left(t, p) == t.index

\* `true_df.index.intersection(pred_df.index)`
common_index(t, p) == SelectSeq(t.index, LAMBDA d : d \in Range(p.index))

\* `true_df.columns.intersection(pred_df.columns)`
common_columns(t, p) == SelectSeq(t.columns, LAMBDA c : c \in Range(p.columns))

\* `df.loc[date_id, common_columns]` raises KeyError for a label the table lacks
loc_ok(df, d, cs) ==
    d \in Range(df.index) /\ \A i \in 1..Len(cs) : cs[i] \in Range(df.columns)

\* `mask = np.isfinite(t) & np.isfinite(p)`: the columns the mask keeps
mask(t, p, d, cs) ==
    SelectSeq(cs, LAMBDA c : isfinite(t.vals[d][c]) /\ isfinite(p.vals[d][c]))

\* mutant: `if mask.sum() > 3`
enough_pairs_more_than_three(m) == Len(m) > 3

\* `if mask.sum() >= 3`
enough_pairs(m) == Len(m) >= 3

float_less(a, b) == a.v < b.v \/ (a.v = b.v /\ a.e < b.e)

\* mutant: rankdata with method "ordinal" (ties ranked by position)
rank2_ordinal(df, d, m, c) ==
    2 * Cardinality({i \in 1..Len(m) : float_less(df.vals[d][m[i]], df.vals[d][c])})
    + 2 * Cardinality({i \in 1..Len(m) :
                         /\ df.vals[d][m[i]] = df.vals[d][c]
                         /\ i <= (CHOOSE j \in 1..Len(m) : m[j] = c)})

\* twice the mid-rank (scipy rankdata, method "average") of cell c among the
\* cells of row d in the columns m
rank2(df, d, m, c) ==
    2 * Cardinality({i \in 1..Len(m) : float_less(df.vals[d][m[i]], df.vals[d][c])})
    + Cardinality({i \in 1..Len(m) : df.vals[d][m[i]] = df.vals[d][c]}) + 1

\* scipy.stats.spearmanr: Pearson correlation of the ranks; NaN for a constant
\* input. With a, b the doubled ranks and n the length:
\* r = (n*sum(ab) - sum(a)sum(b)) / sqrt((n*sum(aa) - sum(a)^2)(n*sum(bb) - sum(b)^2))
spearmanr(t, p, d, m) ==
    LET n  == Len(m)
        a  == [i \in 1..n |-> rank2(t, d, m, m[i])]
        b  == [i \in 1..n |-> rank2(p, d, m, m[i])]
        sa == SeqSum(a)
        sb == SeqSum(b)
        cov == n * SeqSum([i \in 1..n |-> a[i] * b[i]]) - sa * sb
        va == n * SeqSum([i \in 1..n |-> a[i] * a[i]]) - sa * sa
        vb == n * SeqSum([i \in 1..n |-> b[i] * b[i]]) - sb * sb
    IN IF va = 0 \/ vb = 0 THEN CorrNaN
       ELSE [k |-> "num", num |-> cov, den2 |-> va * vb]

\* the loop `for date_id in common_index`, from position i on
RECURSIVE daily_loop(_, _, _, _, _)
daily_loop(t, p, idx, cs, i) ==
    IF i > Len(idx) THEN <<>>
    ELSE LET m == mask(t, p, idx[i], cs)
         IN (IF enough_pairs(m) THEN <<spearmanr(t, p, idx[i], m)>> ELSE <<>>)
            \o daily_loop(t, p, idx, cs, i + 1)

Sign(n) == IF n > 0 THEN 1 ELSE IF n < 0 THEN 0 - 1 ELSE 0

\* equality of two correlation values num / sqrt(den2)
corr_eq(r1, r2) ==
    /\ r1.k = r2.k
    /\ r1.k = "num" =>
          /\ Sign(r1.num) = Sign(r2.num)
          /\ r1.num * r1.num * r2.den2 = r2.num * r2.num * r1.den2

\* np.nanmean / np.nanstd look at the values that are not NaN
not_nan_values(dv) == SelectSeq(dv, LAMBDA r : r.k = "num")

\* mutant: only `not np.isfinite(std_ic)` is tested
std_not_finite_only(vs) == Len(vs) < 2

\* `std_ic == 0.0 or not np.isfinite(std_ic)`: nanstd(ddof=1) is NaN with
\* fewer than two values and 0 when all are equal
std_zero_or_not_finite(vs) ==
    \/ Len(vs) < 2
    \/ \A i \in 1..Len(vs) : corr_eq(vs[i], vs[1])

\* lines 37-45
reduce_daily(dv) ==
    IF Len(dv) < 2 THEN ScoreNaN
    ELSE IF std_zero_or_not_finite(not_nan_values(dv)) THEN ScoreNaN
    ELSE [k |-> "num", vals |-> not_nan_values(dv)]

(***************************************************************************)
(* Metric inputs                                                           *)
(***************************************************************************)
MaxMetricDates == 3

AllColumns == {"a", "b", "c", "e", "f"}

RowPattern(name) ==
    [c \in AllColumns |->
        IF name = "asc"  THEN Num(CHOOSE n \in 1..5 : <<"a", "b", "c", "e", "f">>[n] = c)
        ELSE IF name = "desc" THEN Num(6 - (CHOOSE n \in 1..5 : <<"a", "b", "c", "e", "f">>[n] = c))
        ELSE IF name = "tie"  THEN Num(CHOOSE n \in 1..3 : c \in <<{"a", "b"}, {"c"}, {"e", "f"}>>[n])
        ELSE IF name = "nanb" THEN (IF c = "b" THEN NaN
                                    ELSE Num(CHOOSE n \in 1..5 : <<"a", "b", "c", "e", "f">>[n] = c))
        ELSE IF name = "const" THEN Num(1)
        ELSE (IF c = "c" THEN Inf
              ELSE Num(CHOOSE n \in 1..5 : <<"b", "a", "c", "e", "f">>[n] = c))]

DataFrame(index, columns, pat) ==
    [index   |-> index,
     columns |-> columns,
     vals    |-> [d \in Range(index) |->
                    [c \in Range(columns) |-> RowPattern(pat[d])[c]]]]

TrueTables ==
    UNION {{DataFrame([i \in 1..n |-> i], cs, pat) :
               cs \in {<<"a", "b", "c">>, <<"a", "b", "c", "e">>},
               pat \in [1..n -> {"asc", "tie", "nanb"}]} :
           n \in 0..MaxMetricDates}

PredTables ==
    UNION {UNION {{DataFrame([i \in 1..n |-> i + off], cs, pat) :
                      cs \in {<<"a", "b", "c">>, <<"c", "b", "e", "f">>, <<"f">>},
                      pat \in [(1 + off)..(n + off) -> {"asc", "desc", "infc"}]} :
                  n \in 0..MaxMetricDates} :
           off \in {0, 1}}

\* tables scored against themselves
SelfTables ==
    UNION {{DataFrame([i \in 1..n |-> i], cs, pat) :
               cs \in {<<"a", "b", "c">>, <<"a", "b", "c", "e">>, <<"a", "b", "c", "e", "f">>},
               pat \in [1..n -> {"asc", "desc", "tie", "nanb", "const"}]} :
           n \in 0..MaxMetricDates}

InitMetric ==
    /\ prog = "metric"
    /\ pc = "start"
    /\ missing = "none"
    /\ model_file = NoModelFile
    /\ true_df \in TrueTables
    /\ pred_df \in PredTables
    /\ daily_values = <<>>
    /\ score = NoScore
    /\ models = EmptyDict
    /\ TrainIdle
    /\ InferIdle

\* `if len(common_index) == 0 or len(common_columns) == 0: return float("nan")`
MetricEmptyIntersection ==
    /\ prog = "metric" /\ pc = "start"
    /\ Len(common_index(true_df, pred_df)) = 0 \/ Len(common_columns(true_df, pred_df)) = 0
    /\ score' = ScoreNaN
    /\ pc' = "returned"
    /\ UNCHANGED <<prog, models, true_df, pred_df, daily_values, trainVars, inferVars, ioVars>>

\* the loop over the common dates; a .loc on a label one of the tables lacks
\* raises KeyError
MetricDaily ==
    /\ prog = "metric" /\ pc = "start"
    /\ Len(common_index(true_df, pred_df)) # 0 /\ Len(common_columns(true_df, pred_df)) # 0
    /\ LET idx == common_index(true_df, pred_df)
           cs  == common_columns(true_df, pred_df)
       IN IF \A i \in 1..Len(idx) : loc_ok(true_df, idx[i], cs) /\ loc_ok(pred_df, idx[i], cs)
          THEN /\ daily_values' = daily_loop(true_df, pred_df, idx, cs, 1)
               /\ pc' = "reduce"
               /\ score' = score
          ELSE /\ daily_values' = daily_values
               /\ pc' = "raised"
               /\ score' = ScoreError
    /\ UNCHANGED <<prog, models, true_df, pred_df, trainVars, inferVars, ioVars>>

\* `if len(daily_values) < 2` ... `return mean_ic / std_ic`
MetricReduce ==
    /\ prog = "metric" /\ pc = "reduce"
    /\ score' = reduce_daily(daily_values)
    /\ pc' = "returned"
    /\ UNCHANGED <<prog, models, true_df, pred_df, daily_values, trainVars, inferVars, ioVars>>

NextMetric == MetricEmptyIntersection \/ MetricDaily \/ MetricReduce

SpecMetric == InitMetric /\ [][NextMetric]_vars

\* tables over the dates 1..n, for the rank correlation
RankTables(patterns) ==
    UNION {{DataFrame([i \in 1..n |-> i], cs, pat) :
               cs \in {<<"a", "b", "c">>, <<"a", "b", "c", "e">>},
               pat \in [1..n -> patterns]} :
           n \in 1..MaxMetricDates}

\* daily_spearman_sharpe on a table and itself, or on two tables with the same
\* dates and columns
InitRank ==
    /\ prog = "metric"
    /\ pc = "start"
    /\ missing = "none"
    /\ model_file = NoModelFile
    /\ \/ true_df \in SelfTables /\ pred_df = true_df
       \/ /\ true_df \in RankTables({"asc", "tie", "nanb"})
          /\ pred_df \in RankTables({"asc", "desc", "infc"})
          /\ pred_df.index = true_df.index
          /\ pred_df.columns = true_df.columns
    /\ daily_values = <<>>
    /\ score = NoScore
    /\ models = EmptyDict
    /\ TrainIdle
    /\ InferIdle

SpecRank == InitRank /\ [][NextMetric]_vars

(***************************************************************************)
(* Claims about the metric                                                 *)
(***************************************************************************)
CommonDates == Range(true_df.index) \cap Range(pred_df.index)
CommonColumns == Range(true_df.columns) \cap Range(pred_df.columns)

\* a table cut down to the common dates and the common columns
Restricted(df) ==
    [index   |-> SelectSeq(df.index, LAMBDA d : d \in CommonDates),
     columns |-> SelectSeq(df.columns, LAMBDA c : c \in CommonColumns),
     vals    |-> [d \in CommonDates |-> [c \in CommonColumns |-> df.vals[d][c]]]]

\* C9: the result is computed over the intersection of the two tables' DateId
\* indexes and target columns only: it is the result for the two tables cut
\* down to the common rows and columns; it is NaN when either intersection is
\* empty; and no exception is raised.
C9_OnlyIntersection ==
    prog = "metric" =>
        /\ pc # "raised" /\ score.k # "error"
        /\ pc = "returned" =>
              IF CommonDates = {} \/ CommonColumns = {} THEN score = ScoreNaN
              ELSE score = reduce_daily(daily_loop(Restricted(true_df), Restricted(pred_df),
                                                   Restricted(true_df).index,
                                                   Restricted(true_df).columns, 1))

\* each table has a row and a column the other lacks, and the score is a number
C9_Witness ==
    /\ prog = "metric" /\ pc = "returned" /\ score.k = "num"
    /\ Range(true_df.index) \ Range(pred_df.index) # {}
    /\ Range(pred_df.index) \ Range(true_df.index) # {}
    /\ Range(true_df.columns) \ Range(pred_df.columns) # {}
    /\ Range(pred_df.columns) \ Range(true_df.columns) # {}

\* the number of positions of date d finite in both tables
FinitePairs(d) ==
    Cardinality({c \in CommonColumns :
                    true_df.vals[d][c].k = "num" /\ pred_df.vals[d][c].k = "num"})

\* the common dates with at least 3 finite pairs, in the order of the loop
QualifyingDates ==
    SelectSeq(true_df.index, LAMBDA d : d \in CommonDates /\ FinitePairs(d) >= 3)

\* C10: a common date contributes a daily correlation value if and only if
\* at least 3 positions are finite in both vectors, and the result is NaN
\* whenever fewer than 2 dates produced a value.
C10_ThreePairsTwoDates ==
    /\ (prog = "metric" /\ pc \in {"reduce", "returned"} /\ CommonColumns # {} /\ CommonDates # {}) =>
          /\ Len(daily_values) = Len(QualifyingDates)
          /\ \A i \in 1..Len(daily_values) :
                daily_values[i] =
                    spearmanr(true_df, pred_df, QualifyingDates[i],
                              mask(true_df, pred_df, QualifyingDates[i],
                                   SelectSeq(true_df.columns, LAMBDA c : c \in CommonColumns)))
    /\ (prog = "metric" /\ pc = "returned" /\ Len(QualifyingDates) < 2) => score = ScoreNaN

\* one date has exactly 3 finite pairs and contributes, another has 2 and
\* does not, so a single value was produced and the result is NaN
C10_Witness ==
    /\ prog = "metric" /\ pc = "returned"
    /\ \E d1, d2 \in CommonDates : FinitePairs(d1) = 3 /\ FinitePairs(d2) = 2
    /\ Len(daily_values) = 1
    /\ daily_values[1].k = "num"
    /\ score = ScoreNaN

\* the columns of date d finite in both tables, and whether the true values
\* there are not all the same
FiniteColumns(d) ==
    {c \in CommonColumns : true_df.vals[d][c].k = "num" /\ pred_df.vals[d][c].k = "num"}
NonConstant(df, d) ==
    \E c1, c2 \in FiniteColumns(d) : df.vals[d][c1] # df.vals[d][c2]

IsOne(r) == r.k = "num" /\ r.num > 0 /\ r.num * r.num = r.den2
IsMinusOne(r) == r.k = "num" /\ r.num < 0 /\ r.num * r.num = r.den2

MaskedColumns(d) == SelectSeq(true_df.columns, LAMBDA c : c \in FiniteColumns(d))

\* twice the average of the ordinal positions cell c's tie group occupies
\* when the masked cells of row d are sorted
MidRank2(df, d, c) ==
    LET below == Cardinality({x \in FiniteColumns(d) : float_less(df.vals[d][x], df.vals[d][c])})
        tied  == Cardinality({x \in FiniteColumns(d) : df.vals[d][x] = df.vals[d][c]})
    IN (2 * SeqSum([i \in 1..tied |-> below + i])) \div tied

\* the Pearson correlation of the mid-ranks, from the ranks centred at their
\* mean (n + 1)/2
MidRankCorrelation(d) ==
    LET m  == MaskedColumns(d)
        n  == Len(m)
        a  == [i \in 1..n |-> MidRank2(true_df, d, m[i]) - (n + 1)]
        b  == [i \in 1..n |-> MidRank2(pred_df, d, m[i]) - (n + 1)]
        sab == SeqSum([i \in 1..n |-> a[i] * b[i]])
        saa == SeqSum([i \in 1..n |-> a[i] * a[i]])
        sbb == SeqSum([i \in 1..n |-> b[i] * b[i]])
    IN IF saa = 0 \/ sbb = 0 THEN CorrNaN
       ELSE [k |-> "num", num |-> sab, den2 |-> saa * sbb]

\* the predicted values of date d are in the reverse order of the true ones
PerfectInversion(d) ==
    \A c1, c2 \in FiniteColumns(d) :
        c1 # c2 =>
           /\ true_df.vals[d][c1] # true_df.vals[d][c2]
           /\ float_less(true_df.vals[d][c1], true_df.vals[d][c2])
                 <=> float_less(pred_df.vals[d][c2], pred_df.vals[d][c1])

\* C12: the value a date contributes is the Spearman rank correlation of the
\* masked vectors, tied values given their mid-rank; for a perfect rank
\* inversion it is -1.0.
C12_SpearmanMidRank ==
    (prog = "metric" /\ pc \in {"reduce", "returned"} /\ CommonColumns # {} /\ CommonDates # {}) =>
        /\ Len(daily_values) = Len(QualifyingDates)
        /\ \A i \in 1..Len(daily_values) :
              /\ corr_eq(daily_values[i], MidRankCorrelation(QualifyingDates[i]))
              /\ PerfectInversion(QualifyingDates[i]) => IsMinusOne(daily_values[i])

\* one date has tied true values (a correlation strictly between 0 and 1),
\* another is a perfect inversion with correlation -1.0
C12_Witness ==
    /\ prog = "metric" /\ pc = "returned" /\ Len(daily_values) = 2
    /\ \E c1, c2 \in FiniteColumns(QualifyingDates[1]) :
          c1 # c2 /\ true_df.vals[QualifyingDates[1]][c1] = true_df.vals[QualifyingDates[1]][c2]
    /\ daily_values[1].k = "num" /\ daily_values[1].num > 0
    /\ daily_values[1].num * daily_values[1].num < daily_values[1].den2
    /\ PerfectInversion(QualifyingDates[2])
    /\ IsMinusOne(daily_values[2])
    /\ score.k = "num"

(***************************************************************************)
(* Claims about the per-date loops, the inputs and the order of the runs   *)
(***************************************************************************)
\* C18: the row predict_wide returns has exactly the registry's target names
\* as its keys: every registry target gets a prediction, also when none of
\* its lag values is available for the date, and a target of the snapshot
\* rows without a model is not in the row.
C18_RowKeysAreRegistryTargets ==
    (prog = "ridge" /\ pc \in {"loop", "done"}) =>
        \A i \in 1..Len(rows) :
            /\ DOMAIN rows[i].vals = DOMAIN models
            /\ \A target \in DOMAIN models : rows[i].vals[target].k = "num"
            /\ \A c \in SnapshotTargets \ DOMAIN models : c \notin DOMAIN rows[i].vals

\* the registry holds t and v; the date's snapshot rows hold t and u: the row
\* has t and v (v from the intercept alone) and no u
C18_Witness ==
    /\ AfterCycle("ridge") /\ DOMAIN models = {"t", "v"}
    /\ \E k \in DOMAIN by_lag : DOMAIN by_lag[k] = {"t", "u"}
    /\ \A k \in DOMAIN by_lag : "v" \notin DOMAIN by_lag[k]
    /\ DOMAIN rows[Len(rows)].vals = {"t", "v"}
    /\ rows[Len(rows)].vals["v"] = Num(models["v"].model.intercept)

\* the lags whose table has a row for date d, and those of them whose table
\* has a column for target c
LagsWithRow(d) == {k \in Range(LagList) : lag_tables[k].exists /\ SnapshotRows(k, d) # {}}
LagsWithCell(d, c) == {k \in LagsWithRow(d) : c \in Range(lag_tables[k].cols)}
MaxOf(S) == CHOOSE k \in S : \A j \in S : j <= k

\* the value the baseline keeps for target c from lag k's row of date d
BaselineKept(k, d, c) ==
    LET cell == (CHOOSE r \in SnapshotRows(k, d) : TRUE).vals[c]
    IN IF cell = NaN THEN Num(0) ELSE cell

DateFeature(target, l, d) ==
    IF /\ l \in LagsWithCell(d, target)
       /\ (CHOOSE r \in SnapshotRows(l, d) : TRUE).vals[target] # NaN
    THEN (CHOOSE r \in SnapshotRows(l, d) : TRUE).vals[target].v
    ELSE 0

\* the prediction row of date d, from the registry and that date's snapshot
\* rows alone
DateRow(d) ==
    [target \in DOMAIN models |->
        Num(models[target].model.intercept
            + SeqSum([j \in 1..Len(models[target].lags) |->
                        models[target].model.coef[j]
                        * DateFeature(target, models[target].lags[j], d)]))]

\* C15: the prediction row of a date depends only on the registry and that
\* date's lag snapshot rows, whatever the order of the dates and whichever
\* other dates are in the list, and no per-date cycle changes the registry
\* or the lag tables.
C15_RowDependsOnlyOnItsDate ==
    [][/\ pc = "loop" => models' = models
       /\ lag_tables' = lag_tables
       /\ prog = "ridge" =>
             \A i \in 1..Len(rows') : rows'[i].vals = DateRow(rows'[i].date_id)]_vars

\* dates processed in the order 101, 100, with different snapshot rows: each
\* row is the one of its date
C15_Witness ==
    /\ prog = "ridge" /\ pc = "done" /\ models # EmptyDict
    /\ Len(rows) = 2 /\ rows[1].date_id = 101 /\ rows[2].date_id = 100
    /\ rows[1].vals # rows[2].vals
    /\ rows[1].vals = DateRow(101) /\ rows[2].vals = DateRow(100)

\* a required input of the running program is absent, with the lag snapshot
\* files counted among the inputs of inference
RequiredInputAbsent ==
    \/ missing # "none"
    \/ prog = "ridge" /\ model_file.state # "complete"
    \/ prog \in {"ridge", "baseline"} /\ \E k \in Range(LagList) : ~lag_tables[k].exists

\* every date of the date list has been processed
EveryDateProcessed ==
    /\ di > Len(date_ids)
    /\ Range(date_ids) = Range(test_dates)
    /\ Len(rows) = Len(date_ids)

\* C13: when a required input is absent (train_labels.csv or its date_id
\* column for training; the lagged_test_labels directory, any configured lag
\* snapshot file, test.csv or the model file for inference) the run aborts
\* before anything is written to the output path, and the output is written
\* only after every date has been processed.
C13_AbortBeforeWriting ==
    /\ (prog = "train" /\ RequiredInputAbsent) =>
          model_file.state = "absent" /\ pc \in {"start", "error"}
    /\ (prog \in {"ridge", "baseline"} /\ RequiredInputAbsent) =>
          ~submission.written /\ pc # "done"
    /\ submission.written => EveryDateProcessed

\* what the code does: a lag snapshot file that is absent is skipped, the
\* other inputs are required
C13_AbortUnlessOnlyLagFilesAbsent ==
    /\ (prog = "train" /\ missing # "none") =>
          model_file.state = "absent" /\ pc \in {"start", "error"}
    /\ (prog = "ridge" /\ (missing # "none" \/ model_file.state # "complete")) =>
          ~submission.written /\ pc \in {"start", "error"}
    /\ (prog = "baseline" /\ missing # "none") =>
          ~submission.written /\ pc \in {"start", "error"}
    /\ submission.written => EveryDateProcessed
    /\ (prog = "train" /\ model_file.state # "absent") => pc \in {"writing", "saved"}

\* the registry training returns for the label table: the targets with at
\* least 20 complete rows
TrainableTargets == {c \in Range(Columns) : Cardinality(CompletePositions(c)) >= MinRows}

\* C17: no prediction for any date is computed before training has processed
\* every target and the complete registry exists: inference has the whole
\* registry before its first per-date cycle and uses that same registry,
\* never a partially built one, for every date.
C17_PredictionsOnlyFromCompleteRegistry ==
    /\ (prog = "ridge" /\ pc \in {"start", "error"}) => rows = <<>> /\ di = 0
    /\ (prog = "ridge" /\ pc \in {"loop", "done"}) =>
          /\ ti > Len(Columns)
          /\ model_file.state = "complete"
          /\ models = model_file.registry
          /\ DOMAIN models = TrainableTargets
          /\ \A i \in 1..Len(rows) :
                /\ DOMAIN rows[i].vals = TrainableTargets
                /\ rows[i].vals = DateRow(rows[i].date_id)

\* inference started after training saved a registry of two models (built one
\* target at a time) and predicted two dates from it
C17_Witness ==
    /\ prog = "ridge" /\ pc = "done"
    /\ labels_wide # NoTable /\ TrainableTargets = {"t0", "t1"}
    /\ DOMAIN models = {"t0", "t1"}
    /\ Len(rows) = 2
    /\ DOMAIN rows[1].vals = {"t0", "t1"} /\ DOMAIN rows[2].vals = {"t0", "t1"}
    /\ submission.written

(***************************************************************************)
(* A batch run: any one of the programs, on any of its inputs              *)
(***************************************************************************)
InitBatch == InitTrain \/ InitInfer \/ InitMetric

NextBatch == NextTrain \/ NextInfer \/ NextMetric

SpecBatch == InitBatch /\ [][NextBatch]_vars

\* C14: a batch run never fails because data is incomplete for some targets
\* or dates: whatever the holes of the label table, the dates and values
\* missing from the lag tables and the non-finite cells of the true and
\* predicted tables, no exception is raised in training, in the per-date
\* inference loop or in the metric (an error only for an absent input); the
\* loops visit every target and date, and the results are a registry, a
\* prediction row of numbers per date, and a number or NaN.
C14_NoFailureOnIncompleteData ==
    /\ pc # "raised"
    /\ (prog = "train" /\ pc = "error") => missing # "none"
    /\ (prog = "train" /\ pc \in {"loop", "built"}) => ti \in 1..(Len(Columns) + 1)
    /\ (prog = "train" /\ pc \in {"done", "writing", "saved"}) =>
          /\ Processed = Range(Columns)
          /\ DOMAIN models \subseteq Range(Columns)
    /\ (prog = "ridge" /\ pc = "error") =>
          missing # "none" \/ model_file.state # "complete"
    /\ (prog = "ridge" /\ pc \in {"loop", "done"}) =>
          /\ di \in 1..(Len(date_ids) + 1)
          /\ Len(rows) = di - 1
          /\ \A i \in 1..Len(rows) :
                /\ rows[i].date_id = date_ids[i]
                /\ \A target \in DOMAIN models : rows[i].vals[target].k = "num"
    /\ (prog = "ridge" /\ pc = "done") =>
          /\ submission.written
          /\ {submission.rows[i].date_id : i \in 1..Len(submission.rows)} = Range(test_dates)
    /\ (prog = "metric" /\ pc = "returned") => score.k \in {"num", "nan"}

\* a finished ridge run over two dates: date 101 is in no lag table, the row
\* of date 100 has a missing value for a target of the registry, and both
\* dates have their row of numbers
C14_Witness ==
    /\ prog = "ridge" /\ pc = "done" /\ submission.written
    /\ "t" \in DOMAIN models
    /\ Range(date_ids) = {100, 101}
    /\ LagsWithRow(101) = {}
    /\ \E k \in LagsWithRow(100) : (CHOOSE r \in SnapshotRows(k, 100) : TRUE).vals["t"] = NaN
    /\ Len(submission.rows) = 2
    /\ \A i \in 1..2 : submission.rows[i].vals["t"].k = "num"

====
